---- MODULE Spec2Model ----
(***************************************************************************)
(* Model of optimizer.py: the free-rectangle sheet layout engine           *)
(* (SheetLayout), the first-fit packer (_pack_once), the global compactor, *)
(* the heavy refiner and the multi-start driver                            *)
(* (optimize_cut_multi_start).                                             *)
(*                                                                         *)
(* The specifications, all over the same variables:                        *)
(*   SheetSpec   - one SheetLayout driven by arbitrary try_place_piece     *)
(*                 calls                                                   *)
(*   WideSpec    - the same on one wide sheet with larger pieces           *)
(*   PackSpec    - one call of _pack_once, piece by piece                  *)
(*   Spec        - one call of optimize_cut_multi_start, phase by phase    *)
(*   OneSpec     - Spec with one attempt and repeated pieces               *)
(*   DetSpec     - Spec with the shuffled orders recorded                  *)
(*   CompactSpec - Spec on piece lists the compactor moves parts of        *)
(*   CompactLive - the attempt up to the end of the compactor, which is    *)
(*                 let run                                                 *)
(***************************************************************************)
EXTENDS Integers, Sequences, FiniteSets, TLC

(***************************************************************************)
(* Bounds of the model                                                     *)
(***************************************************************************)
MaxSheetW == 4      \* largest sheet width
MinSheetH == 2      \* smallest sheet height
MaxSheetH == 3      \* largest sheet height
MaxPieceW == 2      \* largest piece width
MaxPieceH == 2      \* largest piece height
MaxKerf == 2
MaxKinds == 3       \* most triples in piece_list
MaxQty == 1         \* largest quantity of a triple
MaxPieces == 3      \* most pieces in the flattened list
MaxAttempts == 2
MaxCalls == 5       \* SheetSpec: most pieces placed on the sheet
MaxQtyOne == 2      \* OneSpec: largest quantity of a triple
MaxPiecesOne == 4   \* OneSpec: most pieces in the flattened list
MaxPiecesDet == 2   \* DetSpec: most pieces in the flattened list
MaxSideComp == 3    \* CompactSpec: largest piece width and height
KindsComp == 4      \* CompactSpec: the triples in piece_list
MaxPiecesComp == 5  \* CompactSpec: most pieces in the flattened list
WideSheetW == 6     \* WideSpec: the sheet width
WideSheetH == 4     \* WideSpec: the sheet height
MaxKerfWide == 1    \* WideSpec: largest kerf
MaxSideWide == 3    \* WideSpec: largest piece width and height
MaxCallsWide == 4   \* WideSpec: most pieces placed on the sheet

Strategies == {"BSSF", "BAF", "BLSF"}

(***************************************************************************)
(* Generic helpers (Python built-ins)                                      *)
(***************************************************************************)
\* A local variable: F of the value v, which is worked out once.
With(v, F(_)) == CHOOSE y \in {F(x) : x \in {v}} : TRUE

Min(a, b) == IF a <= b THEN a ELSE b
Max(a, b) == IF a >= b THEN a ELSE b
Abs(a) == IF a < 0 THEN 0 - a ELSE a
B2I(b) == IF b THEN 1 ELSE 0

\* Python tuple comparison a < b for two tuples of integers.
LexLess(a, b) ==
    \E k \in 1..Min(Len(a), Len(b)) :
        /\ a[k] < b[k]
        /\ \A m \in 1..(k - 1) : a[m] = b[m]

\* The elements of s at the indices in keep, in their order in s.
RECURSIVE KeepIdx(_, _)
KeepIdx(s, keep) ==
    IF s = <<>> THEN <<>>
    ELSE LET n == Len(s)
             front == KeepIdx(SubSeq(s, 1, n - 1), keep)
         IN  IF n \in keep THEN Append(front, s[n]) ELSE front

\* sorted(s, key=..., reverse=True): stable, equal keys keep their order.
\* key is the function index -> key value.
SortDesc(s, key) ==
    LET n == Len(s)
        rank(i) == 1 + Cardinality({j \in 1..n :
                         key[j] > key[i] \/ (key[j] = key[i] /\ j < i)})
    IN  [r \in 1..n |-> s[CHOOSE i \in 1..n : rank(i) = r]]

\* sorted(s, key=...): stable ascending.
SortAsc(s, key) ==
    LET n == Len(s)
        rank(i) == 1 + Cardinality({j \in 1..n :
                         key[j] < key[i] \/ (key[j] = key[i] /\ j < i)})
    IN  [r \in 1..n |-> s[CHOOSE i \in 1..n : rank(i) = r]]

(***************************************************************************)
(* Piece, PlacedPiece, FreeRect                                            *)
(***************************************************************************)
Piece(w, h, name) == [w |-> w, h |-> h, name |-> name]

PlacedPiece(piece, x, y, rotated) ==
    [piece |-> piece, x |-> x, y |-> y, rotated |-> rotated]

width(p) == IF p.rotated THEN p.piece.h ELSE p.piece.w
height(p) == IF p.rotated THEN p.piece.w ELSE p.piece.h

FreeRect(x, y, w, h) == [x |-> x, y |-> y, w |-> w, h |-> h]

(***************************************************************************)
(* SheetLayout                                                             *)
(***************************************************************************)
SheetLayout(sheet_w, sheet_h, kerf, strat, rot) ==
    [sheet_w |-> sheet_w, sheet_h |-> sheet_h, kerf |-> kerf,
     strategy |-> strat, allow_rotation |-> rot,
     placed |-> <<>>,
     free_rects |-> <<FreeRect(0, 0, sheet_w, sheet_h)>>]

RECURSIVE SumAreas(_)
SumAreas(placed) ==
    IF placed = <<>> THEN 0
    ELSE width(Head(placed)) * height(Head(placed)) + SumAreas(Tail(placed))

get_used_area(sh) == SumAreas(sh.placed)

_intersects(a, b) ==
    ~ (\/ a.x + a.w <= b.x
       \/ b.x + b.w <= a.x
       \/ a.y + a.h <= b.y
       \/ b.y + b.h <= a.y)

_contains(a, b) ==
    /\ b.x >= a.x
    /\ b.y >= a.y
    /\ b.x + b.w <= a.x + a.w
    /\ b.y + b.h <= a.y + a.h

\* Variant of PruneOne: the free rect is kept whole.
PruneOne_Keep(fr, used) == <<fr>>

\* The sub-rectangles one free rect leaves around the used rectangle.
PruneOne(fr, used) ==
    IF ~ _intersects(fr, used) THEN <<fr>>
    ELSE LET top == Max(fr.y, used.y)
             bottom == Min(fr.y + fr.h, used.y + used.h)
             right_x == used.x + used.w
         IN  (IF used.y > fr.y
                THEN <<FreeRect(fr.x, fr.y, fr.w, used.y - fr.y)>>
                ELSE <<>>)
          \o (IF used.y + used.h < fr.y + fr.h
                THEN <<FreeRect(fr.x, used.y + used.h, fr.w,
                                (fr.y + fr.h) - (used.y + used.h))>>
                ELSE <<>>)
          \o (IF used.x > fr.x
                THEN <<FreeRect(fr.x, top, used.x - fr.x, bottom - top)>>
                ELSE <<>>)
          \o (IF used.x + used.w < fr.x + fr.w
                THEN <<FreeRect(right_x, top, (fr.x + fr.w) - right_x,
                                bottom - top)>>
                ELSE <<>>)

RECURSIVE PruneAll(_, _)
PruneAll(frs, used) ==
    IF frs = <<>> THEN <<>>
    ELSE PruneOne(Head(frs), used) \o PruneAll(Tail(frs), used)

\* The rects of positive width and height.
Positive(frs) ==
    KeepIdx(frs, {i \in 1..Len(frs) : frs[i].w > 0 /\ frs[i].h > 0})

_prune_free_rects_with(frs, used) == Positive(PruneAll(frs, used))

\* First part of _merge_free_rects: drop every rect contained in another.
DropContained(frs) ==
    KeepIdx(frs, {i \in 1..Len(frs) :
                    ~ \E j \in 1..Len(frs) : i # j /\ _contains(frs[j], frs[i])})

MergesH(a, b) ==
    a.y = b.y /\ a.h = b.h /\ (a.x + a.w = b.x \/ b.x + b.w = a.x)

MergesV(a, b) ==
    a.x = b.x /\ a.w = b.w /\ (a.y + a.h = b.y \/ b.y + b.h = a.y)

\* One pass of the while loop of _merge_free_rects, from index i on.
\* used is the set of indices already consumed, out the rects emitted.
RECURSIVE MergePass(_, _, _, _, _)
MergePass(frs, i, used, out, merged) ==
    IF i > Len(frs) THEN [out |-> out, merged |-> merged]
    ELSE IF i \in used THEN MergePass(frs, i + 1, used, out, merged)
    ELSE LET a == frs[i]
             js == {j \in (i + 1)..Len(frs) :
                      j \notin used /\ (MergesH(a, frs[j]) \/ MergesV(a, frs[j]))}
         IN  IF js = {}
               THEN MergePass(frs, i + 1, used \cup {i}, Append(out, a), merged)
               ELSE LET j == CHOOSE m \in js : \A o \in js : m <= o
                        b == frs[j]
                        r == IF MergesH(a, b)
                               THEN FreeRect(Min(a.x, b.x), a.y, a.w + b.w, a.h)
                               ELSE FreeRect(a.x, Min(a.y, b.y), a.w, a.h + b.h)
                    IN  MergePass(frs, i + 1, used \cup {i, j},
                                  Append(out, r), TRUE)

RECURSIVE MergeLoop(_)
MergeLoop(frs) ==
    With(MergePass(frs, 1, {}, <<>>, FALSE),
         LAMBDA p : IF p.merged THEN MergeLoop(p.out) ELSE p.out)

_merge_free_rects(frs) == MergeLoop(DropContained(frs))

\* Variant of SplitRemnants: the kerf moves the remnants but is not taken
\* off their width and height.
SplitRemnants_NoInset(fr, x, y, pw, ph, k) ==
    LET kx == IF (x + pw) < (fr.x + fr.w) THEN k ELSE 0
        ky == IF (y + ph) < (fr.y + fr.h) THEN k ELSE 0
        rw == (fr.x + fr.w) - (x + pw)
        bh == (fr.y + fr.h) - (y + ph)
    IN  (IF rw > 0 THEN <<FreeRect(x + pw + kx, fr.y, rw, fr.h)>> ELSE <<>>)
        \o (IF bh > 0 THEN <<FreeRect(fr.x, y + ph + ky, fr.w, bh)>> ELSE <<>>)

\* The right and the top remnant of the free rect fr after a piece of
\* pw x ph is placed at (x, y) in it, the kerf k inset where the cut is
\* interior.
SplitRemnants(fr, x, y, pw, ph, k) ==
    LET kx == IF (x + pw) < (fr.x + fr.w) THEN k ELSE 0
        ky == IF (y + ph) < (fr.y + fr.h) THEN k ELSE 0
        rx == x + pw + kx
        rw == (fr.x + fr.w) - rx
        by == y + ph + ky
        bh == (fr.y + fr.h) - by
    IN  (IF rw > 0 THEN <<FreeRect(rx, fr.y, rw, fr.h)>> ELSE <<>>)
        \o (IF bh > 0 THEN <<FreeRect(fr.x, by, fr.w, bh)>> ELSE <<>>)

\* Variant of _place_and_split: the new entry is put at the front of the
\* placed list.
_place_and_split_front(sh, fr_i, piece, rotated, x, y, pw, ph) ==
    LET fr == sh.free_rects[fr_i]
        rest == KeepIdx(sh.free_rects, (1..Len(sh.free_rects)) \ {fr_i})
        split == rest \o SplitRemnants(fr, x, y, pw, ph, sh.kerf)
        pruned == _prune_free_rects_with(split, FreeRect(x, y, pw, ph))
    IN  [sh EXCEPT !.placed = <<PlacedPiece(piece, x, y, rotated)>> \o @,
                   !.free_rects = _merge_free_rects(pruned)]

\* _place_and_split: the sheet after placing piece at (x, y) out of the
\* free rect at index fr_i.
_place_and_split(sh, fr_i, piece, rotated, x, y, pw, ph) ==
    LET fr == sh.free_rects[fr_i]
        rest == KeepIdx(sh.free_rects, (1..Len(sh.free_rects)) \ {fr_i})
        split == rest \o SplitRemnants(fr, x, y, pw, ph, sh.kerf)
    IN  With(_prune_free_rects_with(split, FreeRect(x, y, pw, ph)),
             LAMBDA pruned :
               [sh EXCEPT
                  !.placed = Append(@, PlacedPiece(piece, x, y, rotated)),
                  !.free_rects = _merge_free_rects(pruned)])

\* Variant of orientations: the rotation flag is ignored.
orientations_both(sh) == {FALSE, TRUE}

orientations(sh) == IF sh.allow_rotation THEN {FALSE, TRUE} ELSE {FALSE}

\* Variant of Fits: the piece has to be strictly smaller than the free rect.
Fits_Strict(sh, piece) ==
    {c \in (1..Len(sh.free_rects)) \X orientations(sh) :
        LET fr == sh.free_rects[c[1]]
            pw == IF c[2] THEN piece.h ELSE piece.w
            ph == IF c[2] THEN piece.w ELSE piece.h
        IN  pw < fr.w /\ ph < fr.h}

\* The (free rect index, orientation) pairs in which the piece fits.
Fits(sh, piece) ==
    {c \in (1..Len(sh.free_rects)) \X orientations(sh) :
        LET fr == sh.free_rects[c[1]]
            pw == IF c[2] THEN piece.h ELSE piece.w
            ph == IF c[2] THEN piece.w ELSE piece.h
        IN  pw <= fr.w /\ ph <= fr.h}

\* Candidate tuple of the exact-fit pass; the free rect index is 1-based.
ExactCand(sh, piece, c) ==
    LET fr == sh.free_rects[c[1]]
        pw == IF c[2] THEN piece.h ELSE piece.w
        ph == IF c[2] THEN piece.w ELSE piece.h
    IN  <<fr.y, fr.x, c[1], B2I(c[2]), fr.x, fr.y, pw, ph>>

ExactFits(sh, piece) ==
    {c \in Fits(sh, piece) :
        LET fr == sh.free_rects[c[1]]
            pw == IF c[2] THEN piece.h ELSE piece.w
            ph == IF c[2] THEN piece.w ELSE piece.h
        IN  pw = fr.w \/ ph = fr.h}

base_score(st, fr_w, fr_h, pw, ph) ==
    LET leftover_h == fr_h - ph
        leftover_w == fr_w - pw
        short_side == Min(leftover_h, leftover_w)
        long_side == Max(leftover_h, leftover_w)
        area_left == leftover_h * leftover_w
    IN  IF st = "BSSF" THEN <<short_side, area_left>>
        ELSE IF st = "BAF" THEN <<area_left, short_side>>
        ELSE IF st = "BLSF" THEN <<long_side, short_side>>
        ELSE <<short_side, area_left>>

strip_bias(sh, fr, pw, ph) ==
    LET col_hits == {k \in 1..Len(sh.placed) :
                        /\ sh.placed[k].x = fr.x
                        /\ width(sh.placed[k]) = pw
                        /\ sh.placed[k].y + height(sh.placed[k]) <= fr.y + 1}
    IN  10000
        - (IF fr.x = 0 THEN 200 ELSE 0)
        - (IF col_hits # {} THEN 5000 ELSE 0)
        - Min(fr.y, 200)

\* Candidate tuple of the scored pass.
ScoredCand(sh, piece, c) ==
    LET fr == sh.free_rects[c[1]]
        pw == IF c[2] THEN piece.h ELSE piece.w
        ph == IF c[2] THEN piece.w ELSE piece.h
        primary == base_score(sh.strategy, fr.w, fr.h, pw, ph)
        sb == strip_bias(sh, fr, pw, ph)
    IN  <<primary[1], primary[2], fr.y, fr.x, sb,
          c[1], B2I(c[2]), fr.x, fr.y, pw, ph>>

\* The smallest tuple of a non-empty set of candidate tuples.
LexMin(S) == CHOOSE c \in S : \A d \in S : c = d \/ LexLess(c, d)

\* best = cands[0]: the placement the smallest candidate tuple b names in
\* its last six entries, which start after entry n.
PlaceBest(sh, piece, b, n) ==
    [ok |-> TRUE,
     sh |-> _place_and_split(sh, b[n + 1], piece, b[n + 2] = 1,
                             b[n + 3], b[n + 4], b[n + 5], b[n + 6])]

\* Variant of try_place_piece: the exact-fit pass is left out.
try_place_piece_scored(sh, piece) ==
    LET scored == {ScoredCand(sh, piece, c) : c \in Fits(sh, piece)}
    IN  IF scored # {}
          THEN With(LexMin(scored), LAMBDA b : PlaceBest(sh, piece, b, 5))
        ELSE [ok |-> FALSE, sh |-> sh]

\* try_place_piece: [ok |-> the returned flag, sh |-> the sheet afterwards].
try_place_piece(sh, piece) ==
    LET exact == {ExactCand(sh, piece, c) : c \in ExactFits(sh, piece)}
        scored == {ScoredCand(sh, piece, c) : c \in Fits(sh, piece)}
    IN  IF exact # {}
          THEN With(LexMin(exact), LAMBDA b : PlaceBest(sh, piece, b, 2))
        ELSE IF scored # {}
          THEN With(LexMin(scored), LAMBDA b : PlaceBest(sh, piece, b, 5))
        ELSE [ok |-> FALSE, sh |-> sh]

(***************************************************************************)
(* Module-level functions                                                  *)
(***************************************************************************)
\* _flatten_piece_list: q pieces per (w, h, q) triple, named P1, P2, ...
\* (the name is modelled by its number c).
RECURSIVE FlattenFrom(_, _, _)
FlattenFrom(pl, k, c) ==
    IF k > Len(pl) THEN <<>>
    ELSE [i \in 1..pl[k][3] |-> Piece(pl[k][1], pl[k][2], c + i - 1)]
         \o FlattenFrom(pl, k + 1, c + pl[k][3])

_flatten_piece_list(pl) == FlattenFrom(pl, 1, 1)

PieceArea(p) == p.w * p.h
PlacedArea(p) == width(p) * height(p)

\* Python floor division by 50 of a non-negative area.
NearBand(area0) == Max(1, area0 \div 50)

\* The index j the inner while loop stops at: i..j-1 is the run that
\* starts at i of pieces whose area is near the area of pieces[i].
RECURSIVE ChunkEnd(_, _, _)
ChunkEnd(pieces, i, j) ==
    IF j <= Len(pieces)
       /\ Abs(PieceArea(pieces[j]) - PieceArea(pieces[i]))
            <= NearBand(PieceArea(pieces[i]))
      THEN ChunkEnd(pieces, i, j + 1)
      ELSE j

\* Every order random.shuffle can leave a chunk in.
ChunkOrders(chunk) ==
    LET n == Len(chunk)
    IN  {[i \in 1..n |-> chunk[f[i]]] :
            f \in {g \in [1..n -> 1..n] : \A a, b \in 1..n : a # b => g[a] # g[b]}}

\* Every order the near-equal-area shuffle can leave the sorted list in.
RECURSIVE ShuffleOrders(_)
ShuffleOrders(pieces) ==
    IF pieces = <<>> THEN {<<>>}
    ELSE LET j == ChunkEnd(pieces, 1, 2)
         IN  {c \o rest : c \in ChunkOrders(SubSeq(pieces, 1, j - 1)),
                          rest \in ShuffleOrders(SubSeq(pieces, j, Len(pieces)))}

\* Variant of FirstAccepting: the last sheet that accepts the piece.
FirstAccepting_Last(shs, i, p) ==
    LET ks == {k \in i..Len(shs) : try_place_piece(shs[k], p).ok}
    IN  IF ks = {} THEN [k |-> 0, sh |-> <<>>]
        ELSE With(CHOOSE k \in ks : \A o \in ks : o <= k,
                  LAMBDA k : [k |-> k, sh |-> try_place_piece(shs[k], p).sh])

\* for sh in sheets: if sh.try_place_piece(p): break
\* [k |-> index of the first sheet from i on that accepts the piece, 0 when
\* none does, sh |-> that sheet with the piece placed].
RECURSIVE FirstAccepting(_, _, _)
FirstAccepting(shs, i, p) ==
    IF i > Len(shs) THEN [k |-> 0, sh |-> <<>>]
    ELSE With(try_place_piece(shs[i], p),
              LAMBDA r : IF r.ok THEN [k |-> i, sh |-> r.sh]
                         ELSE FirstAccepting(shs, i + 1, p))

\* The first-fit loop of _pack_once (repeated in _global_refine_heavy):
\* [fail |-> a piece fits no empty sheet, sheets |-> the sheets so far].
RECURSIVE FirstFit(_, _, _, _, _, _, _, _)
FirstFit(pieces, i, shs, sw, sht, kerf, strat, rot) ==
    IF i > Len(pieces) THEN [fail |-> FALSE, sheets |-> shs]
    ELSE With(FirstAccepting(shs, 1, pieces[i]),
              LAMBDA a :
                IF a.k # 0
                  THEN FirstFit(pieces, i + 1, [shs EXCEPT ![a.k] = a.sh],
                                sw, sht, kerf, strat, rot)
                  ELSE With(try_place_piece(
                                SheetLayout(sw, sht, kerf, strat, rot),
                                pieces[i]),
                            LAMBDA r :
                              IF ~ r.ok THEN [fail |-> TRUE, sheets |-> shs]
                              ELSE FirstFit(pieces, i + 1, Append(shs, r.sh),
                                            sw, sht, kerf, strat, rot)))

\* Variant of _pack_once: a piece that fits no empty sheet ends the packing
\* without an error.
_pack_once_swallow(pieces, sw, sht, kerf, strat, rot) ==
    [fail |-> FALSE,
     sheets |-> FirstFit(pieces, 1, <<>>, sw, sht, kerf, strat, rot).sheets]

\* _pack_once: fail stands for the raised ValueError.
_pack_once(pieces, sw, sht, kerf, strat, rot) ==
    FirstFit(pieces, 1, <<>>, sw, sht, kerf, strat, rot)

RECURSIVE SumScrap(_)
SumScrap(shs) ==
    IF shs = <<>> THEN 0
    ELSE Head(shs).sheet_w * Head(shs).sheet_h - get_used_area(Head(shs))
         + SumScrap(Tail(shs))

_score_sheets(shs) == <<Len(shs), SumScrap(shs)>>

\* try_place_piece on each piece in turn, the returned flag ignored.
RECURSIVE PlaceAll(_, _)
PlaceAll(sh, pieces) ==
    IF pieces = <<>> THEN sh
    ELSE With(try_place_piece(sh, Head(pieces)),
              LAMBDA r : PlaceAll(r.sh, Tail(pieces)))

\* Piece(p.width(), p.height(), p.piece.name) for every placed piece.
AsPieces(placed) ==
    [k \in 1..Len(placed) |->
        Piece(width(placed[k]), height(placed[k]), placed[k].piece.name)]

_rebuild_sheet_from_placed(sh) ==
    LET remain == AsPieces(sh.placed)
        empty == [sh EXCEPT !.free_rects =
                                <<FreeRect(0, 0, sh.sheet_w, sh.sheet_h)>>,
                            !.placed = <<>>]
    IN  PlaceAll(empty,
                 SortDesc(remain, [k \in 1..Len(remain) |-> PieceArea(remain[k])]))

\* The indices 1..n as a sequence.
Indices(n) == [k \in 1..n |-> k]

\* rcv.try_place_piece(candidate) of the compactor: the receiver's strategy
\* and rotation flag are replaced for the call and restored after it.
ReceiverTry(rcv, cand, strat, rot) ==
    With(try_place_piece([rcv EXCEPT !.strategy = strat,
                                     !.allow_rotation = rot], cand),
         LAMBDA r :
           [ok |-> r.ok,
            sh |-> [r.sh EXCEPT !.strategy = rcv.strategy,
                                !.allow_rotation = rcv.allow_rotation]])

\* for rcv in sheets[:si]: [k |-> index of the first sheet from i on and
\* before si that accepts the candidate, 0 when none does, sh |-> that
\* sheet with the candidate placed].
RECURSIVE FirstReceiver(_, _, _, _, _, _)
FirstReceiver(shs, i, si, cand, strat, rot) ==
    IF i >= si THEN [k |-> 0, sh |-> <<>>]
    ELSE With(ReceiverTry(shs[i], cand, strat, rot),
              LAMBDA r : IF r.ok THEN [k |-> i, sh |-> r.sh]
                         ELSE FirstReceiver(shs, i + 1, si, cand, strat, rot))

\* The loop over the donor's parts (ascending area): the first part some
\* earlier sheet accepts is moved, the donor rebuilt or dropped.
\* order holds indices into the donor's placed list.
RECURSIVE MovePart(_, _, _, _, _, _)
MovePart(shs, si, order, k, strat, rot) ==
    IF k > Len(order) THEN [moved |-> FALSE, sheets |-> shs]
    ELSE LET donor == shs[si]
             part == donor.placed[order[k]]
             cand == Piece(width(part), height(part), part.piece.name)
             left == KeepIdx(donor.placed,
                             (1..Len(donor.placed)) \ {order[k]})
         IN  With(FirstReceiver(shs, 1, si, cand, strat, rot),
                  LAMBDA r :
                    IF r.k = 0 THEN MovePart(shs, si, order, k + 1, strat, rot)
                    ELSE [moved |-> TRUE,
                          sheets |->
                            IF left # <<>>
                              THEN [shs EXCEPT
                                      ![r.k] = r.sh,
                                      ![si] = _rebuild_sheet_from_placed(
                                                [donor EXCEPT !.placed = left])]
                              ELSE KeepIdx([shs EXCEPT ![r.k] = r.sh],
                                           (1..Len(shs)) \ {si})])

\* The loop over the donors, from the last sheet down to the second.
RECURSIVE CompactorScan(_, _, _, _, _)
CompactorScan(shs, si, best_score, strat, rot) ==
    IF si < 2 THEN [sheets |-> shs, improved |-> FALSE]
    ELSE LET donor == shs[si]
             order == SortAsc(Indices(Len(donor.placed)),
                              [k \in 1..Len(donor.placed) |->
                                  PlacedArea(donor.placed[k])])
         IN  With(MovePart(shs, si, order, 1, strat, rot),
                  LAMBDA m :
                    IF m.moved /\ LexLess(_score_sheets(m.sheets), best_score)
                      THEN [sheets |-> m.sheets, improved |-> TRUE]
                      ELSE CompactorScan(m.sheets, si - 1, best_score,
                                         strat, rot))

\* Variant of CompactorPass: improved is set by every move of a part.
CompactorPass_Moved(shs, strat, rot) ==
    With(CompactorScan(shs, Len(shs), _score_sheets(shs), strat, rot),
         LAMBDA c : [sheets |-> c.sheets, improved |-> c.sheets # shs])

\* One iteration of the while loop of _global_compactor.
CompactorPass(shs, strat, rot) ==
    CompactorScan(shs, Len(shs), _score_sheets(shs), strat, rot)

\* The whole of _global_compactor.
RECURSIVE _global_compactor(_, _, _)
_global_compactor(shs, strat, rot) ==
    With(CompactorPass(shs, strat, rot),
         LAMBDA c : IF c.improved THEN _global_compactor(c.sheets, strat, rot)
                    ELSE c.sheets)

sheet_waste(sh) == sh.sheet_w * sh.sheet_h - get_used_area(sh)

\* order of _global_refine_heavy: sheet indices by descending waste.
RefineOrder(shs) ==
    SortDesc(Indices(Len(shs)), [k \in 1..Len(shs) |-> sheet_waste(shs[k])])

\* The clone of a non-victim sheet: its parts re-placed on a fresh sheet
\* in descending area order.
ClonePack(sh, sw, sht, kerf, strat, rot) ==
    LET ps == AsPieces(sh.placed)
    IN  PlaceAll(SheetLayout(sw, sht, kerf, strat, rot),
                 SortDesc(ps, [k \in 1..Len(ps) |-> PieceArea(ps[k])]))

RECURSIVE OthersPool(_, _, _, _, _, _, _, _)
OthersPool(shs, j, victim_idx, sw, sht, kerf, strat, rot) ==
    IF j > Len(shs) THEN <<>>
    ELSE (IF j = victim_idx THEN <<>>
          ELSE AsPieces(ClonePack(shs[j], sw, sht, kerf, strat, rot).placed))
         \o OthersPool(shs, j + 1, victim_idx, sw, sht, kerf, strat, rot)

\* The pool of one victim trial, sorted by descending area (not shuffled).
\* pool.sort(key=lambda p: p.w*p.h, reverse=True)
ByAreaDesc(ps) == SortDesc(ps, [k \in 1..Len(ps) |-> PieceArea(ps[k])])

RefinePool(shs, victim_idx, sw, sht, kerf, strat, rot) ==
    ByAreaDesc(OthersPool(shs, 1, victim_idx, sw, sht, kerf, strat, rot)
               \o AsPieces(shs[victim_idx].placed))

(***************************************************************************)
(* State                                                                   *)
(***************************************************************************)
VARIABLES
    sheet_w, sheet_h, kerf,      \* W, H, K of optimize_cut_multi_start
    piece_list,                  \* the (w, h, q) triples
    strategy, allow_rotation,
    attempts,
    pc,                          \* position in optimize_cut_multi_start
    attempt,                     \* attempts completed (the for loop index)
    sheets,                      \* the sheet list of the current attempt
    ff_score,                    \* the score of the attempt's _pack_once output
    ref_round, ref_vi,           \* _global_refine_heavy: round, victim position
    best_sheets, best_score,
    result,                      \* the returned list
    hist,                        \* the final sheet list of every attempt
    draws,                       \* the orders random.shuffle has produced
    sh,                          \* SheetSpec: the sheet
    arg, ret                     \* SheetSpec: last piece tried, flag returned

vars == <<sheet_w, sheet_h, kerf, piece_list, strategy, allow_rotation,
          attempts, pc, attempt, sheets, ff_score, ref_round, ref_vi,
          best_sheets, best_score, result, hist, draws, sh, arg, ret>>

inputVars == <<sheet_w, sheet_h, kerf, piece_list, strategy, allow_rotation,
               attempts>>
sheetVars == <<sh, arg, ret>>

\* Python's None for best_sheets, best_score and the not yet returned result.
None == <<>>

\* rounds=3 passed by optimize_cut_multi_start to _global_refine_heavy.
Rounds == 3

\* draws when the orders are not recorded, and at the start when they are.
NoDraws == [rec |-> FALSE, seq |-> <<>>]
FirstDraws == [rec |-> TRUE, seq |-> <<>>]

\* draws after random.shuffle has left the list in the given order.
Drawn(order) ==
    IF draws.rec THEN [draws EXCEPT !.seq = Append(@, order)] ELSE draws

SheetWidths == 1..MaxSheetW
SheetHeights == MinSheetH..MaxSheetH
PieceWidths == 1..MaxPieceW
PieceHeights == 1..MaxPieceH
Kerfs == 0..MaxKerf

\* Piece lists of at most MaxKinds triples, of distinct (w, h) in
\* increasing order, quantities up to maxQty, at most maxPieces pieces in all.
PieceListsOf(maxQty, maxPieces) ==
    {pl \in UNION {[1..n -> PieceWidths \X PieceHeights \X (1..maxQty)] :
                      n \in 0..MaxKinds} :
        /\ Len(_flatten_piece_list(pl)) <= maxPieces
        /\ \A k \in 1..(Len(pl) - 1) :
              LexLess(<<pl[k][1], pl[k][2]>>, <<pl[k + 1][1], pl[k + 1][2]>>)}

PieceLists == PieceListsOf(MaxQty, MaxPieces)

(***************************************************************************)
(* Spec: one call of optimize_cut_multi_start                              *)
(***************************************************************************)
Init ==
    /\ sheet_w \in SheetWidths
    /\ sheet_h \in SheetHeights
    /\ kerf \in Kerfs
    /\ piece_list \in PieceLists
    /\ strategy \in Strategies
    /\ allow_rotation \in BOOLEAN
    /\ attempts \in 0..MaxAttempts
    /\ pc = "attempt"
    /\ attempt = 0
    /\ sheets = <<>>
    /\ ff_score = None
    /\ ref_round = 0
    /\ ref_vi = 1
    /\ best_sheets = None
    /\ best_score = None
    /\ result = None
    /\ hist = <<>>
    /\ draws = NoDraws
    /\ sh = SheetLayout(1, 1, 0, "BSSF", FALSE)
    /\ arg = Piece(1, 1, 0)
    /\ ret = FALSE

\* base of optimize_cut_multi_start sorted by descending area.
SortedBase ==
    LET base == _flatten_piece_list(piece_list)
    IN  SortDesc(base, [k \in 1..Len(base) |-> PieceArea(base[k])])

\* Lines 386-398: copy, sort, shuffle and _pack_once of one attempt.  The
\* ValueError of _pack_once is not caught: it leaves the function.
Pack ==
    /\ pc = "attempt"
    /\ attempt < attempts
    /\ \E order \in ShuffleOrders(SortedBase) :
         /\ \E r \in {_pack_once(order, sheet_w, sheet_h, kerf,
                              strategy, allow_rotation)} :
            IF r.fail
              THEN /\ pc' = "raised"
                   /\ UNCHANGED <<sheets, ff_score>>
              ELSE /\ pc' = "compact"
                   /\ sheets' = r.sheets
                   /\ ff_score' = _score_sheets(r.sheets)
         /\ draws' = Drawn(order)
    /\ UNCHANGED <<inputVars, sheetVars, attempt, ref_round, ref_vi,
                   best_sheets, best_score, result, hist>>

\* One iteration of the while loop of _global_compactor.
Compact ==
    /\ pc = "compact"
    /\ \E c \in {CompactorPass(sheets, strategy, allow_rotation)} :
          /\ sheets' = c.sheets
          /\ pc' = IF c.improved THEN "compact" ELSE "refine"
    /\ ref_round' = 0
    /\ ref_vi' = 1
    /\ UNCHANGED <<inputVars, sheetVars, attempt, ff_score,
                   best_sheets, best_score, result, hist, draws>>

\* Variant of Accepts: every re-pack replaces the list.
Accepts_Any(new_score, old_score) == TRUE

\* Variant of Accepts: a re-pack of equal score replaces the list too.
Accepts_OrEqual(new_score, old_score) == ~ LexLess(old_score, new_score)

\* if new_score < old_score: the refiner replaces the list.
Accepts(new_score, old_score) == LexLess(new_score, old_score)

\* order[:2] of a round that starts with the sheet list shs.
VictimsOf(shs) == SubSeq(RefineOrder(shs), 1, Min(2, Len(shs)))

\* order[:2] of the current round.
Victims == VictimsOf(sheets)

\* One victim trial of _global_refine_heavy: pool, shuffle, re-pack and
\* the replacement of the list on a strictly smaller score.
RefineTrial ==
    /\ pc = "refine"
    /\ ref_round < Rounds
    /\ Len(sheets) > 1
    /\ ref_vi <= Len(Victims)
    /\ \E pool \in ShuffleOrders(RefinePool(sheets, Victims[ref_vi], sheet_w,
                                            sheet_h, kerf, strategy,
                                            allow_rotation)) :
         /\ \E new \in {FirstFit(pool, 1, <<>>, sheet_w, sheet_h, kerf,
                                strategy, allow_rotation)} :
            IF ~ new.fail
               /\ Accepts(_score_sheets(new.sheets), _score_sheets(sheets))
              THEN /\ sheets' = new.sheets
                   /\ ref_round' = ref_round + 1
                   /\ ref_vi' = 1
              ELSE /\ ref_vi' = ref_vi + 1
                   /\ UNCHANGED <<sheets, ref_round>>
         /\ draws' = Drawn(pool)
    /\ UNCHANGED <<inputVars, sheetVars, pc, attempt, ff_score,
                   best_sheets, best_score, result, hist>>

\* The exits of _global_refine_heavy: the rounds are used up, at most one
\* sheet is left, or a round ended without a replacement.
RefineDone ==
    /\ pc = "refine"
    /\ \/ ref_round >= Rounds
       \/ Len(sheets) <= 1
       \/ ref_vi > Len(Victims)
    /\ pc' = "select"
    /\ UNCHANGED <<inputVars, sheetVars, attempt, sheets, ff_score,
                   ref_round, ref_vi, best_sheets, best_score, result, hist,
                   draws>>

\* Variant of Better: an attempt of equal score is retained too.
Better_OrEqual(sc, best) == best = None \/ ~ LexLess(best, sc)

\* if best_score is None or sc < best_score: the attempt is retained.
Better(sc, best) == best = None \/ LexLess(sc, best)

\* Lines 401-404: score the attempt and keep it when strictly better.
Select ==
    /\ pc = "select"
    /\ LET sc == _score_sheets(sheets)
       IN  IF Better(sc, best_score)
             THEN /\ best_score' = sc
                  /\ best_sheets' = sheets
             ELSE UNCHANGED <<best_score, best_sheets>>
    /\ hist' = Append(hist, sheets)
    /\ attempt' = attempt + 1
    /\ pc' = "attempt"
    /\ UNCHANGED <<inputVars, sheetVars, sheets, ff_score,
                   ref_round, ref_vi, result, draws>>

\* Line 405: return best_sheets or [].
Return ==
    /\ pc = "attempt"
    /\ attempt >= attempts
    /\ result' = IF best_score = None THEN <<>> ELSE best_sheets
    /\ pc' = "done"
    /\ UNCHANGED <<inputVars, sheetVars, attempt, sheets, ff_score,
                   ref_round, ref_vi, best_sheets, best_score, hist, draws>>

Next == Pack \/ Compact \/ RefineTrial \/ RefineDone \/ Select \/ Return

Spec == Init /\ [][Next]_vars

(***************************************************************************)
(* OneSpec: one call of optimize_cut_multi_start with attempts = 1 and the  *)
(* default strategy on a square sheet, for piece lists with repeated pieces *)
(***************************************************************************)
OneInit ==
    /\ sheet_w = MaxSheetH
    /\ sheet_h = MaxSheetH
    /\ kerf \in Kerfs
    /\ piece_list \in PieceListsOf(MaxQtyOne, MaxPiecesOne)
    /\ strategy = "BSSF"
    /\ allow_rotation \in BOOLEAN
    /\ attempts = 1
    /\ pc = "attempt"
    /\ attempt = 0
    /\ sheets = <<>>
    /\ ff_score = None
    /\ ref_round = 0
    /\ ref_vi = 1
    /\ best_sheets = None
    /\ best_score = None
    /\ result = None
    /\ hist = <<>>
    /\ draws = NoDraws
    /\ sh = SheetLayout(1, 1, 0, "BSSF", FALSE)
    /\ arg = Piece(1, 1, 0)
    /\ ret = FALSE

OneSpec == OneInit /\ [][Next]_vars

(***************************************************************************)
(* DetSpec: Spec with the orders random.shuffle produces recorded, and the *)
(* functions of the pipeline as wholes, their shuffles reading the record  *)
(***************************************************************************)
\* Variant of _global_refine_heavy: no trial is made and no order used.
_global_refine_heavy_none(shs, round, vi, ds) == [sheets |-> shs, rest |-> ds]

\* _global_refine_heavy from round `round` and victim position vi on, the
\* pool of each trial left by random.shuffle in the next order of ds:
\* [sheets |-> the list afterwards, rest |-> the orders not yet used].
RECURSIVE _global_refine_heavy(_, _, _, _)
_global_refine_heavy(shs, round, vi, ds) ==
    IF round >= Rounds \/ Len(shs) <= 1 \/ vi > Len(VictimsOf(shs))
      THEN [sheets |-> shs, rest |-> ds]
      ELSE With(FirstFit(Head(ds), 1, <<>>, sheet_w, sheet_h, kerf,
                         strategy, allow_rotation),
                LAMBDA new :
                  IF ~ new.fail
                     /\ Accepts(_score_sheets(new.sheets), _score_sheets(shs))
                    THEN _global_refine_heavy(new.sheets, round + 1, 1, Tail(ds))
                    ELSE _global_refine_heavy(shs, round, vi + 1, Tail(ds)))

\* The value that stands for the ValueError leaving the function.
Raised == <<"ValueError">>

\* The for loop of optimize_cut_multi_start with n attempts to go and its
\* return, the shuffles taking their orders from ds.
RECURSIVE AttemptsFrom(_, _, _, _)
AttemptsFrom(n, ds, best_sc, best_shs) ==
    IF n = 0 THEN (IF best_sc = None THEN <<>> ELSE best_shs)
    ELSE With(_pack_once(Head(ds), sheet_w, sheet_h, kerf,
                         strategy, allow_rotation),
              LAMBDA r :
                IF r.fail THEN Raised
                ELSE With(_global_refine_heavy(
                              _global_compactor(r.sheets, strategy,
                                                allow_rotation),
                              0, 1, Tail(ds)),
                          LAMBDA f :
                            IF Better(_score_sheets(f.sheets), best_sc)
                              THEN AttemptsFrom(n - 1, f.rest,
                                                _score_sheets(f.sheets),
                                                f.sheets)
                              ELSE AttemptsFrom(n - 1, f.rest,
                                                best_sc, best_shs)))

\* optimize_cut_multi_start as a function of its arguments and of the
\* orders ds its shuffles produce.
optimize_cut_multi_start(ds) == AttemptsFrom(attempts, ds, None, None)

DetInit ==
    /\ sheet_w \in SheetWidths
    /\ sheet_h \in SheetHeights
    /\ kerf \in Kerfs
    /\ piece_list \in PieceListsOf(MaxQty, MaxPiecesDet)
    /\ strategy \in Strategies
    /\ allow_rotation \in BOOLEAN
    /\ attempts \in 0..MaxAttempts
    /\ pc = "attempt"
    /\ attempt = 0
    /\ sheets = <<>>
    /\ ff_score = None
    /\ ref_round = 0
    /\ ref_vi = 1
    /\ best_sheets = None
    /\ best_score = None
    /\ result = None
    /\ hist = <<>>
    /\ draws = FirstDraws
    /\ sh = SheetLayout(1, 1, 0, "BSSF", FALSE)
    /\ arg = Piece(1, 1, 0)
    /\ ret = FALSE

DetSpec == DetInit /\ [][Next]_vars

(***************************************************************************)
(* CompactSpec: one attempt of optimize_cut_multi_start on the largest     *)
(* sheet, without kerf and rotation, for piece lists of more and larger    *)
(* pieces, on which _global_compactor moves parts                          *)
(***************************************************************************)
\* Piece lists of KindsComp triples, of distinct (w, h) in increasing order
\* with sides up to MaxSideComp, quantities up to MaxQtyOne, at most
\* MaxPiecesComp pieces in all.
CompactLists ==
    {pl \in [1..KindsComp -> (1..MaxSideComp) \X (1..MaxSideComp)
                                \X (1..MaxQtyOne)] :
        /\ Len(_flatten_piece_list(pl)) <= MaxPiecesComp
        /\ \A k \in 1..(Len(pl) - 1) :
              LexLess(<<pl[k][1], pl[k][2]>>, <<pl[k + 1][1], pl[k + 1][2]>>)}

CompactInit ==
    /\ sheet_w = MaxSheetW
    /\ sheet_h = MaxSheetH
    /\ kerf = 0
    /\ piece_list \in CompactLists
    /\ strategy = "BSSF"
    /\ allow_rotation = FALSE
    /\ attempts = 1
    /\ pc = "attempt"
    /\ attempt = 0
    /\ sheets = <<>>
    /\ ff_score = None
    /\ ref_round = 0
    /\ ref_vi = 1
    /\ best_sheets = None
    /\ best_score = None
    /\ result = None
    /\ hist = <<>>
    /\ draws = NoDraws
    /\ sh = SheetLayout(1, 1, 0, "BSSF", FALSE)
    /\ arg = Piece(1, 1, 0)
    /\ ret = FALSE

CompactSpec == CompactInit /\ [][Next]_vars

\* The attempt up to the end of _global_compactor.
CompactNext == Pack \/ Compact

\* The while loop of _global_compactor runs on as long as it can.
CompactLive == CompactInit /\ [][CompactNext]_vars /\ WF_vars(Compact)

(***************************************************************************)
(* SheetSpec: one SheetLayout, any sequence of try_place_piece calls       *)
(***************************************************************************)
SheetInit ==
    /\ sheet_w \in SheetWidths
    /\ sheet_h \in SheetHeights
    /\ kerf \in Kerfs
    /\ strategy \in Strategies
    /\ allow_rotation \in BOOLEAN
    /\ sh = SheetLayout(sheet_w, sheet_h, kerf, strategy, allow_rotation)
    /\ arg = Piece(1, 1, 0)
    /\ ret = FALSE
    /\ piece_list = <<>>
    /\ attempts = 0
    /\ pc = "sheet"
    /\ attempt = 0
    /\ sheets = <<>>
    /\ ff_score = None
    /\ ref_round = 0
    /\ ref_vi = 1
    /\ best_sheets = None
    /\ best_score = None
    /\ result = None
    /\ hist = <<>>
    /\ draws = NoDraws

TryPlace ==
    /\ pc = "sheet"
    /\ Len(sh.placed) < MaxCalls
    /\ \E w \in PieceWidths, h \in PieceHeights :
         \E r \in {try_place_piece(sh, Piece(w, h, Len(sh.placed) + 1))} :
            /\ sh' = r.sh
            /\ ret' = r.ok
            /\ arg' = Piece(w, h, Len(sh.placed) + 1)
    /\ UNCHANGED <<inputVars, pc, attempt, sheets, ff_score,
                   ref_round, ref_vi, best_sheets, best_score, result, hist,
                   draws>>

SheetNext == TryPlace

SheetSpec == SheetInit /\ [][SheetNext]_vars

(***************************************************************************)
(* PackSpec: one call of _pack_once, one piece of the list at a time       *)
(***************************************************************************)
\* Piece lists of at most MaxKinds triples in any order, quantities up to
\* MaxQtyOne, one to MaxPiecesOne pieces in all.
PackLists ==
    {pl \in UNION {[1..n -> PieceWidths \X PieceHeights \X (1..MaxQtyOne)] :
                      n \in 1..MaxKinds} :
        Len(_flatten_piece_list(pl)) <= MaxPiecesOne}

\* The argument pieces of _pack_once.
PackPieces == _flatten_piece_list(piece_list)

\* The parts placed on the sheets so far.
RECURSIVE CountPlaced(_)
CountPlaced(shs) ==
    IF shs = <<>> THEN 0 ELSE Len(Head(shs).placed) + CountPlaced(Tail(shs))

PackInit ==
    /\ sheet_w \in SheetWidths
    /\ sheet_h \in SheetHeights
    /\ kerf \in Kerfs
    /\ piece_list \in PackLists
    /\ strategy \in Strategies
    /\ allow_rotation \in BOOLEAN
    /\ attempts = 0
    /\ pc = "pack"
    /\ attempt = 0
    /\ sheets = <<>>
    /\ ff_score = None
    /\ ref_round = 0
    /\ ref_vi = 1
    /\ best_sheets = None
    /\ best_score = None
    /\ result = None
    /\ hist = <<>>
    /\ draws = NoDraws
    /\ sh = SheetLayout(1, 1, 0, "BSSF", FALSE)
    /\ arg = Piece(1, 1, 0)
    /\ ret = FALSE

\* One iteration of `for p in pieces` of _pack_once: the loop run on the
\* one piece that is next, from the sheets so far.
PackPiece ==
    /\ pc = "pack"
    /\ CountPlaced(sheets) < Len(PackPieces)
    /\ \E r \in {FirstFit(<<PackPieces[CountPlaced(sheets) + 1]>>, 1, sheets,
                           sheet_w, sheet_h, kerf, strategy, allow_rotation)} :
          IF r.fail
            THEN /\ pc' = "raised"
                 /\ UNCHANGED sheets
            ELSE /\ pc' = "pack"
                 /\ sheets' = r.sheets
    /\ UNCHANGED <<inputVars, sheetVars, attempt, ff_score, ref_round, ref_vi,
                   best_sheets, best_score, result, hist, draws>>

\* return sheets
PackReturn ==
    /\ pc = "pack"
    /\ CountPlaced(sheets) = Len(PackPieces)
    /\ pc' = "packed"
    /\ result' = sheets
    /\ UNCHANGED <<inputVars, sheetVars, attempt, sheets, ff_score, ref_round,
                   ref_vi, best_sheets, best_score, hist, draws>>

PackNext == PackPiece \/ PackReturn

PackSpec == PackInit /\ [][PackNext]_vars

(***************************************************************************)
(* WideSpec: one wide SheetLayout and larger pieces, fewer calls           *)
(***************************************************************************)
WideInit ==
    /\ sheet_w = WideSheetW
    /\ sheet_h = WideSheetH
    /\ kerf \in 0..MaxKerfWide
    /\ strategy \in Strategies
    /\ allow_rotation \in BOOLEAN
    /\ sh = SheetLayout(sheet_w, sheet_h, kerf, strategy, allow_rotation)
    /\ arg = Piece(1, 1, 0)
    /\ ret = FALSE
    /\ piece_list = <<>>
    /\ attempts = 0
    /\ pc = "wide"
    /\ attempt = 0
    /\ sheets = <<>>
    /\ ff_score = None
    /\ ref_round = 0
    /\ ref_vi = 1
    /\ best_sheets = None
    /\ best_score = None
    /\ result = None
    /\ hist = <<>>
    /\ draws = NoDraws

TryPlaceWide ==
    /\ pc = "wide"
    /\ Len(sh.placed) < MaxCallsWide
    /\ \E w \in 1..MaxSideWide, h \in 1..MaxSideWide :
         \E r \in {try_place_piece(sh, Piece(w, h, Len(sh.placed) + 1))} :
            /\ sh' = r.sh
            /\ ret' = r.ok
            /\ arg' = Piece(w, h, Len(sh.placed) + 1)
    /\ UNCHANGED <<inputVars, pc, attempt, sheets, ff_score,
                   ref_round, ref_vi, best_sheets, best_score, result, hist,
                   draws>>

WideNext == TryPlaceWide

WideSpec == WideInit /\ [][WideNext]_vars

(***************************************************************************)
(* Properties                                                              *)
(***************************************************************************)
\* The effective rectangle of a placed piece.
Rect(p) == FreeRect(p.x, p.y, width(p), height(p))

\* Two rectangles have an interior point in common.
Overlap(a, b) ==
    /\ a.x < b.x + b.w
    /\ b.x < a.x + a.w
    /\ a.y < b.y + b.h
    /\ b.y < a.y + a.h

\* The gap between two intervals [a, a + la] and [b, b + lb].
Gap(a, la, b, lb) == Max(b - (a + la), a - (b + lb))

PairsOf(placed) ==
    {ij \in (1..Len(placed)) \X (1..Len(placed)) : ij[1] < ij[2]}

\* C1 - No overlap: on a sheet reached from the empty sheet by
\* try_place_piece calls, no two distinct placed parts have an interior
\* point in common.
C1_NoOverlap ==
    \A ij \in PairsOf(sh.placed) :
        ~ Overlap(Rect(sh.placed[ij[1]]), Rect(sh.placed[ij[2]]))

\* Three parts are placed and two of them share an edge segment.
C1_Witness ==
    /\ Len(sh.placed) >= 3
    /\ \E ij \in PairsOf(sh.placed) :
          LET a == Rect(sh.placed[ij[1]])
              b == Rect(sh.placed[ij[2]])
          IN  /\ a.x + a.w = b.x
              /\ a.y < b.y + b.h
              /\ b.y < a.y + a.h

\* C2 - Kerf separation: with kerf > 0, two distinct placed parts whose
\* extents overlap on one axis are at least kerf apart on the other.
C2_KerfSeparation ==
    sh.kerf > 0 =>
        \A ij \in PairsOf(sh.placed) :
            LET a == Rect(sh.placed[ij[1]])
                b == Rect(sh.placed[ij[2]])
            IN  /\ (a.x < b.x + b.w /\ b.x < a.x + a.w)
                      => Gap(a.y, a.h, b.y, b.h) >= sh.kerf
                /\ (a.y < b.y + b.h /\ b.y < a.y + a.h)
                      => Gap(a.x, a.w, b.x, b.w) >= sh.kerf

\* C5 - Containment: every placed part lies inside the sheet.
C5_Containment ==
    \A k \in 1..Len(sh.placed) :
        LET p == sh.placed[k]
        IN  /\ 0 <= p.x
            /\ 0 <= p.y
            /\ p.x + width(p) <= sh.sheet_w
            /\ p.y + height(p) <= sh.sheet_h

\* With a kerf, a part placed out of a remnant reaches the right edge of
\* the sheet and another one the top edge.
C5_Witness ==
    /\ sh.kerf > 0
    /\ sh.sheet_w >= 3
    /\ \E k \in 2..Len(sh.placed) :
          /\ sh.placed[k].x > 0
          /\ sh.placed[k].x + width(sh.placed[k]) = sh.sheet_w
    /\ \E k \in 2..Len(sh.placed) :
          /\ sh.placed[k].y > 0
          /\ sh.placed[k].y + height(sh.placed[k]) = sh.sheet_h

\* C6 - Frame of try_place_piece: a call that returns false leaves the
\* placed list and the free-rect list as they were; a call that returns
\* true appends exactly one entry to the placed list and leaves every
\* earlier entry as it was.
C6_Frame ==
    [][/\ ret' = FALSE => sh' = sh
       /\ ret' = TRUE =>
            /\ Len(sh'.placed) = Len(sh.placed) + 1
            /\ SubSeq(sh'.placed, 1, Len(sh.placed)) = sh.placed
            /\ sh'.placed[Len(sh'.placed)].piece = arg']_sheetVars

\* A call was refused on a sheet that holds parts and still has free rects.
C6_Witness ==
    /\ pc = "sheet"
    /\ ret = FALSE
    /\ Len(sh.placed) >= 2
    /\ sh.free_rects # <<>>

\* The piece fits an empty sheet in a permitted orientation.
FitsEmpty(p) ==
    \/ p.w <= sheet_w /\ p.h <= sheet_h
    \/ allow_rotation /\ p.h <= sheet_w /\ p.w <= sheet_h

\* Some piece of piece_list fits an empty sheet in no permitted orientation.
HasOversized ==
    \E k \in 1..Len(_flatten_piece_list(piece_list)) :
        ~ FitsEmpty(_flatten_piece_list(piece_list)[k])

\* The (sheet index, placed index) pairs of a sheet list.
Slots(shs) ==
    {ij \in (1..Len(shs)) \X (1..MaxPiecesOne + MaxPieces) :
        ij[2] <= Len(shs[ij[1]].placed)}

\* Python's a <= b for two scores.
LexLE(a, b) == a = b \/ LexLess(a, b)

\* C3 - Conservation: when every piece fits an empty sheet and attempts >= 1,
\* the returned sheets hold each flattened piece exactly once, with the
\* requested (w, h), or (h, w) when rotation is allowed.
C3_Conservation ==
    (pc = "done" /\ attempts >= 1 /\ ~ HasOversized) =>
        LET base == _flatten_piece_list(piece_list)
        IN  /\ Cardinality(Slots(result)) = Len(base)
            /\ \A k \in 1..Len(base) :
                 \E ij \in Slots(result) :
                    LET p == result[ij[1]].placed[ij[2]]
                    IN  /\ p.piece.name = base[k].name
                        /\ \/ width(p) = base[k].w /\ height(p) = base[k].h
                           \/ /\ allow_rotation
                              /\ width(p) = base[k].h
                              /\ height(p) = base[k].w

Unrotated(shs) == \A ij \in Slots(shs) : ~ shs[ij[1]].placed[ij[2]].rotated

\* C8 - Rotation respect: with allow_rotation false, every placed part on
\* every sheet of the packer, the compactor, the refiner and the driver has
\* rotated = false.
C8_RotationRespect ==
    ~ allow_rotation =>
        /\ Unrotated(sheets)
        /\ Unrotated(best_sheets)
        /\ Unrotated(result)
        /\ \A a \in 1..Len(hist) : Unrotated(hist[a])

\* Without rotation, a list of two sheets is returned that holds a part
\* which is not square.
C8_Witness ==
    /\ ~ allow_rotation
    /\ pc = "done"
    /\ Len(result) >= 2
    /\ \E ij \in Slots(result) :
          LET p == result[ij[1]].placed[ij[2]] IN p.piece.w # p.piece.h

\* C9 - OversizedPart condition: _pack_once raises if and only if some
\* piece fits an empty sheet in no permitted orientation; a piece equal to
\* the sheet size is placed at (0, 0) with zero scrap on its sheet.
C9_OversizedIff ==
    /\ pc = "raised" => HasOversized
    /\ (pc \in {"compact", "refine", "select"} \/ attempt > 0) => ~ HasOversized
    /\ pc \in {"compact", "refine", "select"} =>
          LET base == _flatten_piece_list(piece_list)
          IN  \A k \in 1..Len(base) :
                 (base[k].w = sheet_w /\ base[k].h = sheet_h) =>
                    \E i \in 1..Len(sheets) :
                       /\ Len(sheets[i].placed) = 1
                       /\ sheets[i].placed[1].piece.name = base[k].name
                       /\ sheets[i].placed[1].x = 0
                       /\ sheets[i].placed[1].y = 0
                       /\ sheet_waste(sheets[i]) = 0

\* A piece equal to the sheet size is packed next to other pieces.
C9_Witness ==
    /\ pc = "compact"
    /\ Len(sheets) >= 2
    /\ \E k \in 1..Len(_flatten_piece_list(piece_list)) :
          /\ _flatten_piece_list(piece_list)[k].w = sheet_w
          /\ _flatten_piece_list(piece_list)[k].h = sheet_h

\* The index of the first attempt with the smallest score.
FirstBest ==
    CHOOSE i \in 1..Len(hist) :
        \A j \in 1..Len(hist) :
            /\ LexLE(_score_sheets(hist[i]), _score_sheets(hist[j]))
            /\ j < i => LexLess(_score_sheets(hist[i]), _score_sheets(hist[j]))

\* C10 - Best-of-N selection: the returned list is the result of the
\* attempt with the lexicographically smallest score, the earliest such
\* attempt among equals.
C10_BestOfN ==
    /\ (pc = "done" /\ hist # <<>>) => result = hist[FirstBest]
    /\ (pc = "attempt" /\ hist # <<>>) =>
          (best_sheets = hist[FirstBest]
           /\ best_score = _score_sheets(hist[FirstBest]))

\* Two attempts ended with the same score and different sheet lists.
C10_Witness ==
    /\ pc = "done"
    /\ Len(hist) = 2
    /\ hist[1] # hist[2]
    /\ _score_sheets(hist[1]) = _score_sheets(hist[2])

C12_CompactorAcceptance ==
    [][(pc = "compact" /\ sheets' # sheets)
          => LexLess(_score_sheets(sheets'), _score_sheets(sheets))]_vars

\* C17 - Compactor termination: the while loop of _global_compactor goes
\* into another pass exactly when the pass before it has strictly lowered
\* the score (sheet_count, total_scrap) it started with, it is left after
\* the first pass that has not, and it is left in the end.
C17_CompactorTermination ==
    /\ [][pc = "compact" =>
             ((pc' = "compact") <=>
                 LexLess(_score_sheets(sheets'), _score_sheets(sheets)))]_vars
    /\ [](pc = "compact" => <>(pc = "refine"))

\* The loop is in a pass that follows one that has lowered the score.
C17_Witness ==
    /\ pc = "compact"
    /\ LexLess(_score_sheets(sheets), ff_score)

\* The unit cells of a sheet, each named by its lower left corner.
Cells(s) == (0..(s.sheet_w - 1)) \X (0..(s.sheet_h - 1))

\* The cell c lies in the rectangle r.
InRect(r, c) ==
    /\ r.x <= c[1] /\ c[1] < r.x + r.w
    /\ r.y <= c[2] /\ c[2] < r.y + r.h

\* The cell c lies in the effective rectangle of the placed part p or
\* within k of it.
InHalo(p, c, k) ==
    /\ p.x - k <= c[1] /\ c[1] < p.x + width(p) + k
    /\ p.y - k <= c[2] /\ c[2] < p.y + height(p) + k

\* C13 - Free-rect coverage: on a sheet reached by try_place_piece calls,
\* every cell that is neither in a placed part nor within the kerf of one
\* lies in at least one free rect.
C13_FreeCoverage ==
    \A c \in Cells(sh) :
        (\A k \in 1..Len(sh.placed) : ~ InHalo(sh.placed[k], c, sh.kerf))
            => \E i \in 1..Len(sh.free_rects) : InRect(sh.free_rects[i], c)

\* C14 - Free-rect non-containment: on a sheet reached by try_place_piece
\* calls, no free rect is contained in another one of the list, every free
\* rect has a positive width and height, and the merge loop has ended: one
\* more pass over the list merges nothing.
C14_NonContainment ==
    /\ \A i, j \in 1..Len(sh.free_rects) :
          i # j => ~ _contains(sh.free_rects[j], sh.free_rects[i])
    /\ \A i \in 1..Len(sh.free_rects) :
          sh.free_rects[i].w > 0 /\ sh.free_rects[i].h > 0
    /\ ~ MergePass(sh.free_rects, 1, {}, <<>>, FALSE).merged

\* The (free rect index, rotated) pairs of the sheet s in which the piece p
\* fits and fills the width or the height of the free rect.
ExactPairs(s, p) ==
    {c \in (1..Len(s.free_rects)) \X BOOLEAN :
        LET fr == s.free_rects[c[1]]
            pw == IF c[2] THEN p.h ELSE p.w
            ph == IF c[2] THEN p.w ELSE p.h
        IN  /\ c[2] => s.allow_rotation
            /\ pw <= fr.w /\ ph <= fr.h
            /\ (pw = fr.w \/ ph = fr.h)}

\* (fr.y, fr.x, index, orientation) of the pair c; the index is 1-based.
ExactKey(s, c) ==
    <<s.free_rects[c[1]].y, s.free_rects[c[1]].x, c[1], B2I(c[2])>>

\* C15 - Exact-fit priority: when some free rect and permitted orientation
\* is an exact fit for the piece, whatever the strategy, try_place_piece
\* returns true and puts the part at the corner (fr.x, fr.y) of the exact
\* fit with the smallest (fr.y, fr.x, index, orientation), unrotated before
\* rotated; the scored pass does not choose the place.
C15_ExactFirst ==
    [][ExactPairs(sh, arg') # {} =>
         \E c \in ExactPairs(sh, arg') :
            /\ \A e \in ExactPairs(sh, arg') :
                  e = c \/ LexLess(ExactKey(sh, c), ExactKey(sh, e))
            /\ ret' = TRUE
            /\ sh'.placed =
                  Append(sh.placed,
                         PlacedPiece(arg', sh.free_rects[c[1]].x,
                                     sh.free_rects[c[1]].y, c[2]))]_sheetVars

\* The sheet before the last part was placed: the earlier parts placed
\* again, one by one, on an empty sheet.
BeforeLast ==
    PlaceAll(SheetLayout(sheet_w, sheet_h, kerf, strategy, allow_rotation),
             [k \in 1..(Len(sh.placed) - 1) |-> sh.placed[k].piece])

\* The last call placed a part by an exact fit, at a place or in an
\* orientation other than the one the scored pass ranks first.
C15_Witness ==
    /\ ret = TRUE
    /\ Len(sh.placed) >= 2
    /\ sh.placed[Len(sh.placed)].piece = arg
    /\ ExactPairs(BeforeLast, arg) # {}
    /\ LET b == LexMin({ScoredCand(BeforeLast, arg, c) :
                            c \in Fits(BeforeLast, arg)})
           last == sh.placed[Len(sh.placed)]
       IN  <<b[8], b[9], b[7]>> # <<last.x, last.y, B2I(last.rotated)>>

\* The sheets of shs at the indices the piece p is accepted at.
AcceptingSheets(shs, p) ==
    {k \in 1..Len(shs) : try_place_piece(shs[k], p).ok}

\* C16 - First-fit order: a step of _pack_once places the next piece of
\* the given order on the existing sheet of lowest index that accepts it
\* and leaves the other sheets as they are; when no existing sheet accepts
\* it, one new sheet that holds the piece is appended and the existing
\* sheets stay as they are; the piece is checked before anything is added
\* when it raises.  Sheets are never reordered or removed.
C16_FirstFit ==
    [][pc = "pack" /\ CountPlaced(sheets) < Len(PackPieces) =>
         LET p == PackPieces[CountPlaced(sheets) + 1]
             acc == AcceptingSheets(sheets, p)
         IN  IF acc # {}
               THEN \E k \in acc :
                       /\ \A o \in acc : k <= o
                       /\ sheets' = [sheets EXCEPT
                                       ![k] = try_place_piece(sheets[k], p).sh]
               ELSE \/ /\ pc' = "raised"
                       /\ sheets' = sheets
                    \/ /\ Len(sheets') = Len(sheets) + 1
                       /\ SubSeq(sheets', 1, Len(sheets)) = sheets
                       /\ Len(sheets'[Len(sheets')].placed) = 1
                       /\ sheets'[Len(sheets')].placed[1].piece = p]_vars

\* The last piece went to the first sheet although a later sheet, opened
\* before, accepts it too; and a piece before it opened a sheet.
C16_Witness ==
    /\ pc = "pack"
    /\ Len(sheets) >= 2
    /\ \E k \in 1..Len(sheets[1].placed) :
          /\ sheets[1].placed[k].piece.name = CountPlaced(sheets)
          /\ try_place_piece(sheets[2], sheets[1].placed[k].piece).ok

\* The lists a trial on the victim at position vi of the round can pack:
\* _pack_once without the raise on every order of the shuffled pool.
Repacks(shs, vi) ==
    {FirstFit(pool, 1, <<>>, sheet_w, sheet_h, kerf, strategy,
              allow_rotation) :
        pool \in ShuffleOrders(RefinePool(shs, VictimsOf(shs)[vi], sheet_w,
                                          sheet_h, kerf, strategy,
                                          allow_rotation))}

\* C18 - Refiner atomic replacement: a step of _global_refine_heavy leaves
\* the sheet list as it is or replaces it by a freshly packed list of a
\* strictly smaller score, which ends the round; the rounds that replaced
\* the list never exceed Rounds, no trial is made once they are used up,
\* and a round whose victims all failed to improve ends the refiner with
\* the list unchanged.
C18_AtomicReplace ==
    [][pc = "refine" =>
         /\ \/ sheets' = sheets
            \/ /\ LexLess(_score_sheets(sheets'), _score_sheets(sheets))
               /\ \E new \in Repacks(sheets, ref_vi) :
                     ~ new.fail /\ sheets' = new.sheets
               /\ ref_round' = ref_round + 1
               /\ pc' = "refine"
         /\ ref_round' <= Rounds
         /\ (ref_round >= Rounds \/ ref_vi > Len(Victims))
               => (pc' = "select" /\ sheets' = sheets)]_vars

\* The refiner has replaced the list in its first round and starts the
\* second round.
C18_Witness ==
    /\ pc = "refine"
    /\ ref_round = 1
    /\ ref_vi = 1
    /\ Len(sheets) >= 1
    /\ LexLess(_score_sheets(sheets), ff_score)

\* C19 - Part immutability: with allow_rotation set, every part on the
\* returned sheets refers to a piece whose own (w, h) is the (w, h) of the
\* piece of that name in the flattened piece_list.
C19_Immutable ==
    (pc = "done" /\ allow_rotation) =>
        \A s \in 1..Len(result) :
            \A k \in 1..Len(result[s].placed) :
                LET part == result[s].placed[k].piece
                    asked == _flatten_piece_list(piece_list)[part.name]
                IN  part.w = asked.w /\ part.h = asked.h
====
